---------------------------- MODULE Spec2Model ----------------------------
(***************************************************************************)
(* The minimax bot of gamey (src/gamey/src/bot/minimax.rs): the board      *)
(* snapshot MinimaxState, win detection, the tactical scan, the static     *)
(* evaluation and the iterative-deepening alpha-beta search.               *)
(*                                                                         *)
(* The functions that only read or rewrite the snapshot in one go          *)
(* (check_win, dfs_collect_edges, evaluate_state, ...) are operators that  *)
(* take the snapshot and give back their result together with the snapshot *)
(* they leave.  The functions that call make_move / undo_move around other *)
(* calls (greedy_search, iterative_deepening_search, search_best_move,     *)
(* minimax, choose_move) run as frames on a call stack, one action per     *)
(* step, so that every snapshot the search passes through is a state.      *)
(***************************************************************************)
EXTENDS Integers, Sequences, FiniteSets, TLC

(***************************************************************************)
(* Program constants.                                                      *)
(***************************************************************************)
WIN_SCORE == 100000

LOSE_SCORE == -WIN_SCORE

\* i32::MAX / 2
INFINITY == 1073741823

\* the last depth of the loop `for depth in 1..=100`
DepthLimit == 100

\* the margin of `score >= WIN_SCORE - 100`
WinMargin == 100

(***************************************************************************)
(* Bounds of the model.                                                    *)
(***************************************************************************)
\* the deepest iteration the clock lets iterative deepening start, and the
\* deepest search a direct call asks for: one ply for each cell of the board
MaxDepth == 6

\* the number of direct calls made on one snapshot
MaxCalls == 3

(***************************************************************************)
(* The board of the external game (crate::GameY, crate::Coordinates): a    *)
(* triangle of side Size whose cells are the triples (x, y, z) of naturals *)
(* with x + y + z = Size - 1, numbered row by row.                         *)
(***************************************************************************)
\* GameY::new(3), the board of the tests
Size == 3

total_cells == (Size * (Size + 1)) \div 2

Cells == 0 .. (total_cells - 1)

RECURSIVE RowOf(_, _)
RowOf(idx, r) ==
    IF ((r + 1) * (r + 2)) \div 2 > idx THEN r ELSE RowOf(idx, r + 1)

from_index(idx) ==
    LET r == RowOf(idx, 0)
        c == idx - ((r * (r + 1)) \div 2)
    IN  [x |-> Size - 1 - r, y |-> c, z |-> r - c]

to_index(co) ==
    LET r == Size - 1 - co.x
    IN  ((r * (r + 1)) \div 2) + co.y

is_valid(co) ==
    /\ co.x >= 0 /\ co.y >= 0 /\ co.z >= 0
    /\ co.x + co.y + co.z = Size - 1

touches_side_a(co) == co.x = 0

touches_side_b(co) == co.y = 0

touches_side_c(co) == co.z = 0

get_neighbors(co) ==
    << [x |-> co.x - 1, y |-> co.y + 1, z |-> co.z],
       [x |-> co.x - 1, y |-> co.y,     z |-> co.z + 1],
       [x |-> co.x + 1, y |-> co.y - 1, z |-> co.z],
       [x |-> co.x,     y |-> co.y - 1, z |-> co.z + 1],
       [x |-> co.x + 1, y |-> co.y,     z |-> co.z - 1],
       [x |-> co.x,     y |-> co.y + 1, z |-> co.z - 1] >>

\* PlayerId 0 and 1; NoPlayer is next_player() = None
NoPlayer == -1

other_player(p) == 1 - p

(***************************************************************************)
(* Small integer helpers: the 3-bit edge masks and sequences of cells.     *)
(***************************************************************************)
HasBit(m, b) == (m \div b) % 2 = 1

\* a | b on 3-bit masks
BitOr(a, b) ==
    (IF HasBit(a, 1) \/ HasBit(b, 1) THEN 1 ELSE 0)
  + (IF HasBit(a, 2) \/ HasBit(b, 2) THEN 2 ELSE 0)
  + (IF HasBit(a, 4) \/ HasBit(b, 4) THEN 4 ELSE 0)

\* u8::count_ones on a 3-bit mask
count_ones(m) ==
    (IF HasBit(m, 1) THEN 1 ELSE 0)
  + (IF HasBit(m, 2) THEN 1 ELSE 0)
  + (IF HasBit(m, 4) THEN 1 ELSE 0)

Abs(v) == IF v < 0 THEN -v ELSE v

Max(a, b) == IF a >= b THEN a ELSE b

Min(a, b) == IF a <= b THEN a ELSE b

(***************************************************************************)
(* MinimaxState::new: the caches, which never change after construction.   *)
(***************************************************************************)
coords_cache == [idx \in Cells |-> from_index(idx)]

neighbors_cache ==
    [idx \in Cells |->
        LET valid == SelectSeq(get_neighbors(coords_cache[idx]), is_valid)
        IN  [k \in 1 .. Len(valid) |-> to_index(valid[k])]]

edges_cache ==
    [idx \in Cells |->
        LET co == coords_cache[idx]
        IN  (IF touches_side_a(co) THEN 1 ELSE 0)
          + (IF touches_side_b(co) THEN 2 ELSE 0)
          + (IF touches_side_c(co) THEN 4 ELSE 0)]

\* new with a slip: every cell is marked available, whatever the game says
new_all_available(g, bot_player) ==
    [ board          |-> [idx \in Cells |-> g.board[idx]],
      available_mask |-> [idx \in Cells |-> TRUE],
      bot_id         |-> bot_player + 1,
      human_id       |-> other_player(bot_player) + 1,
      visited        |-> [idx \in Cells |-> FALSE],
      stack          |-> << >> ]

\* the snapshot of a game for the player to move: owners are player ids
\* plus one, the available mask is the game's available cells
new(g, bot_player) ==
    [ board          |-> [idx \in Cells |-> g.board[idx]],
      available_mask |-> [idx \in Cells |-> idx \in g.available],
      bot_id         |-> bot_player + 1,
      human_id       |-> other_player(bot_player) + 1,
      visited        |-> [idx \in Cells |-> FALSE],
      stack          |-> << >> ]

(***************************************************************************)
(* MinimaxState: make_move, undo_move and the two iterators.               *)
(***************************************************************************)
\* make_move with a slip: the bit of the cell is not cleared
make_move_bit_kept(s, idx, player) ==
    [s EXCEPT !.board[idx] = player]

make_move(s, idx, player) ==
    [s EXCEPT !.board[idx] = player, !.available_mask[idx] = FALSE]

\* undo_move with a slip: the bit of the cell is not set again
undo_move_bit_kept(s, idx) ==
    [s EXCEPT !.board[idx] = 0]

undo_move(s, idx) ==
    [s EXCEPT !.board[idx] = 0, !.available_mask[idx] = TRUE]

RECURSIVE OnesFrom(_, _)
OnesFrom(mask, idx) ==
    IF idx >= total_cells THEN << >>
    ELSE IF mask[idx] THEN << idx >> \o OnesFrom(mask, idx + 1)
    ELSE OnesFrom(mask, idx + 1)

\* available_mask.ones(), in index order
available_cells(s) == OnesFrom(s.available_mask, 0)

\* available_mask.zeroes(), in index order
occupied_cells(s) == OnesFrom([idx \in Cells |-> ~s.available_mask[idx]], 0)

(***************************************************************************)
(* check_win and dfs_collect_edges.  Both work in the scratch buffers      *)
(* visited and stack of the snapshot and leave them as the code does.      *)
(***************************************************************************)
RECURSIVE PushNeighbors(_, _, _, _)
PushNeighbors(s, idx, player, k) ==
    IF k > Len(neighbors_cache[idx]) THEN s
    ELSE LET neighbor == neighbors_cache[idx][k]
         IN  IF s.board[neighbor] = player /\ ~s.visited[neighbor]
             THEN PushNeighbors(
                      [s EXCEPT !.visited[neighbor] = TRUE,
                                !.stack = Append(s.stack, neighbor)],
                      idx, player, k + 1)
             ELSE PushNeighbors(s, idx, player, k + 1)

RECURSIVE DfsLoop(_, _, _)
DfsLoop(s, edges_mask, player) ==
    IF s.stack = << >> THEN [mask |-> edges_mask, s |-> s]
    ELSE LET idx    == s.stack[Len(s.stack)]
             popped == [s EXCEPT !.stack = SubSeq(s.stack, 1, Len(s.stack) - 1)]
             m      == BitOr(edges_mask, edges_cache[idx])
         IN  IF m = 7 THEN [mask |-> m, s |-> popped]
             ELSE DfsLoop(PushNeighbors(popped, idx, player, 1), m, player)

dfs_collect_edges(s, start, player) ==
    DfsLoop([s EXCEPT !.stack = << start >>, !.visited[start] = TRUE], 0, player)

RECURSIVE CheckWinLoop(_, _, _)
CheckWinLoop(s, idx, player) ==
    IF idx >= total_cells THEN [win |-> FALSE, s |-> s]
    ELSE IF s.board[idx] = player /\ edges_cache[idx] # 0 /\ ~s.visited[idx]
    THEN LET d == dfs_collect_edges(s, idx, player)
         IN  IF d.mask = 7 THEN [win |-> TRUE, s |-> d.s]
             ELSE CheckWinLoop(d.s, idx + 1, player)
    ELSE CheckWinLoop(s, idx + 1, player)

\* check_win with a slip: visited is not cleared
ClearVisitedSkipped(s) == s

ClearVisited(s) == [s EXCEPT !.visited = [idx \in Cells |-> FALSE]]

check_win(s, player) == CheckWinLoop(ClearVisited(s), 0, player)


(***************************************************************************)
(* f32 arithmetic as evaluate_position_strength uses it.  A float is       *)
(* [m, e], the number m * 2^e with 0 <= m <= 2^24; each operation gives    *)
(* the exact result rounded to 24 significant bits, ties to even, as IEEE  *)
(* 754 single precision does.  Only the non-negative values the heuristic  *)
(* meets are covered (50 - off_center is positive on boards of side < 26). *)
(***************************************************************************)
RECURSIVE Pow2(_)
Pow2(k) == IF k = 0 THEN 1 ELSE 2 * Pow2(k - 1)

RECURSIVE BitLen(_)
BitLen(v) == IF v = 0 THEN 0 ELSE 1 + BitLen(v \div 2)

\* (q + d) * 2^e with 0 <= d < 1 and d # 0 iff sticky, rounded to 24 bits;
\* a sticky q comes with at least 25 bits
f32_round(q, e, sticky) ==
    IF q < Pow2(24) THEN [m |-> q, e |-> e]
    ELSE LET sh   == BitLen(q) - 24
             keep == q \div Pow2(sh)
             rem  == q % Pow2(sh)
             half == Pow2(sh - 1)
             up   == \/ rem > half
                     \/ rem = half /\ sticky
                     \/ rem = half /\ keep % 2 = 1
         IN  [m |-> IF up THEN keep + 1 ELSE keep, e |-> e + sh]

\* the quotient digits of a / b, one binary digit a step, until 26 bits
RECURSIVE DivSteps(_, _, _, _)
DivSteps(q, r, b, k) ==
    IF q >= Pow2(25) THEN [q |-> q, r |-> r, k |-> k]
    ELSE DivSteps(2 * q + (IF 2 * r >= b THEN 1 ELSE 0),
                  IF 2 * r >= b THEN 2 * r - b ELSE 2 * r,
                  b, k + 1)

\* a as f32 / b as f32, for small naturals a and b > 0
f32_div(a, b) ==
    IF a = 0 THEN [m |-> 0, e |-> 0]
    ELSE LET d == DivSteps(a \div b, a % b, b, 0)
         IN  f32_round(d.q, -d.k, d.r # 0)

\* 1. - g, for 0 <= g <= 1
f32_one_minus(g) ==
    IF g.m = 0 THEN [m |-> 1, e |-> 0]
    ELSE f32_round(Pow2(-g.e) - g.m, g.e, FALSE)

\* c as f32 * w, for a natural c < 2^12: the product c * w.m is formed in
\* two 12-bit halves of w.m, hi * 2^12 + lo
f32_mul_int(c, w) ==
    LET mh == w.m \div 4096
        ml == w.m % 4096
        hi == c * mh + ((c * ml) \div 4096)
        lo == (c * ml) % 4096
    IN  IF hi < 4096 THEN [m |-> hi * 4096 + lo, e |-> w.e]
        ELSE LET sh   == BitLen(hi) - 12
                 keep == hi * Pow2(12 - sh) + (lo \div Pow2(sh))
                 rem  == lo % Pow2(sh)
                 half == Pow2(sh - 1)
                 up   == rem > half \/ (rem = half /\ keep % 2 = 1)
             IN  [m |-> IF up THEN keep + 1 ELSE keep, e |-> w.e + sh]

\* f as i32, truncating
f32_as_i32(f) ==
    IF f.e >= 0 THEN f.m * Pow2(f.e) ELSE f.m \div Pow2(-f.e)

(***************************************************************************)
(* evaluate_position_strength and evaluate_state.                          *)
(***************************************************************************)
\* the neighbour count with a slip: the neighbours that are not the player's
OtherOwnerNeighbors(s, idx, player) ==
    Cardinality({k \in 1 .. Len(neighbors_cache[idx]) :
                    s.board[neighbors_cache[idx][k]] # player})

SameOwnerNeighbors(s, idx, player) ==
    Cardinality({k \in 1 .. Len(neighbors_cache[idx]) :
                    s.board[neighbors_cache[idx][k]] = player})

off_center(co) == Abs(co.x - co.y) + Abs(co.y - co.z) + Abs(co.z - co.x)

\* the loop over occupied_cells(): the running score (the +40 bonuses),
\* edges_touched, total_connections and center_control
RECURSIVE StrengthLoop(_, _, _, _, _)
StrengthLoop(s, player, cells, k, acc) ==
    IF k > Len(cells) THEN acc
    ELSE LET idx == cells[k]
             neighbors == SameOwnerNeighbors(s, idx, player)
         IN  IF s.board[idx] = player
             THEN StrengthLoop(s, player, cells, k + 1,
                      [ score |-> acc.score + (IF neighbors >= 2 THEN 40 ELSE 0),
                        edges_touched |-> BitOr(acc.edges_touched, edges_cache[idx]),
                        total_connections |-> acc.total_connections + neighbors,
                        center_control |-> acc.center_control
                                           + (50 - off_center(coords_cache[idx])) ])
             ELSE StrengthLoop(s, player, cells, k + 1, acc)

\* (1. - pieces_on_board / total_valid_cells) * 5.
center_weight(pieces_on_board) ==
    f32_mul_int(5, f32_one_minus(f32_div(pieces_on_board, total_cells)))

CenterWeights == [n \in 0 .. total_cells |-> center_weight(n)]

\* the four terms of the strength, before they are added up
StrengthTerms(s, player) ==
    LET occupied == occupied_cells(s)
        acc == StrengthLoop(s, player, occupied, 1,
                   [score |-> 0, edges_touched |-> 0,
                    total_connections |-> 0, center_control |-> 0])
    IN  [ bonus |-> acc.score,
          edge_score |-> count_ones(acc.edges_touched) * 5,
          connections_score |-> acc.total_connections * 25,
          center_score |-> f32_as_i32(f32_mul_int(acc.center_control,
                                                  CenterWeights[Len(occupied)])) ]

evaluate_position_strength(s, player) ==
    LET t == StrengthTerms(s, player)
    IN  t.bonus + t.edge_score + t.connections_score + t.center_score

\* evaluate_state with a slip: a win of the opponent scores WIN_SCORE too
evaluate_state_one_sign(s) ==
    LET w1 == check_win(s, s.bot_id)
        w2 == check_win(w1.s, s.human_id)
    IN  IF w1.win THEN [score |-> WIN_SCORE, s |-> w1.s]
        ELSE IF w2.win THEN [score |-> WIN_SCORE, s |-> w2.s]
        ELSE [score |-> evaluate_position_strength(w2.s, s.bot_id)
                        - evaluate_position_strength(w2.s, s.human_id),
              s |-> w2.s]

evaluate_state(s) ==
    LET w1 == check_win(s, s.bot_id)
        w2 == check_win(w1.s, s.human_id)
    IN  IF w1.win THEN [score |-> WIN_SCORE, s |-> w1.s]
        ELSE IF w2.win THEN [score |-> LOSE_SCORE, s |-> w2.s]
        ELSE [score |-> evaluate_position_strength(w2.s, s.bot_id)
                        - evaluate_position_strength(w2.s, s.human_id),
              s |-> w2.s]


(***************************************************************************)
(* The external game, as far as the bot reads it: the owner of each cell   *)
(* (0 = empty, else player id + 1), the available cells and the player to  *)
(* move.  The game ends when a player has joined the three sides or the    *)
(* board is full.                                                          *)
(***************************************************************************)
NeighborSet(c) == {neighbors_cache[c][k] : k \in 1 .. Len(neighbors_cache[c])}

\* the cells of owner p reachable from the cells S through neighbours
RECURSIVE Reach(_, _, _)
Reach(board, p, S) ==
    LET T == S \cup {n \in Cells : board[n] = p /\ \E c \in S : n \in NeighborSet(c)}
    IN  IF T = S THEN S ELSE Reach(board, p, T)

\* the bitwise OR of the edge flags of the cells S
EdgesOf(S) ==
    (IF \E c \in S : HasBit(edges_cache[c], 1) THEN 1 ELSE 0)
  + (IF \E c \in S : HasBit(edges_cache[c], 2) THEN 2 ELSE 0)
  + (IF \E c \in S : HasBit(edges_cache[c], 4) THEN 4 ELSE 0)

\* some connected component of p's cells touches the three sides
HasWon(board, p) ==
    \E c \in Cells : board[c] = p /\ EdgesOf(Reach(board, p, {c})) = 7

new_game ==
    [board |-> [idx \in Cells |-> 0], available |-> Cells, next |-> 0]

game_add_move(g, idx) ==
    LET b  == [g.board EXCEPT ![idx] = g.next + 1]
        av == g.available \ {idx}
    IN  [ board |-> b, available |-> av,
          next |-> IF HasWon(b, g.next + 1) \/ av = {}
                   THEN NoPlayer ELSE other_player(g.next) ]

(***************************************************************************)
(* State.                                                                  *)
(*   game    the external game choose_move is given                        *)
(*   state   the MinimaxState the running call works on                    *)
(*   frames  the call stack: one record of locals per active call of       *)
(*           choose_move, greedy_search, iterative_deepening_search,       *)
(*           search_best_move or minimax, the innermost last               *)
(*   ret     the value the last finished call returned                     *)
(*   phase   "game", "unit" or "ready" before a call, "run" during it,     *)
(*           "done" after it, "panic" when it panicked                     *)
(*   call    the outermost call and its arguments                          *)
(*   pre     the snapshot at the outermost call                            *)
(***************************************************************************)
VARIABLES game, state, frames, ret, phase, call, pre

vars == << game, state, frames, ret, phase, call, pre >>

\* Option::None of a cell index
NoMove == -1

NoCoords == [x |-> -1, y |-> -1, z |-> -1]

NoRet ==
    [ fn |-> "none", some |-> FALSE, coords |-> NoCoords, move |-> NoMove,
      score |-> 0, win |-> FALSE, mask |-> 0 ]

NoCall ==
    [ fn |-> "none", idx |-> NoMove, player |-> 0, depth |-> 0, alpha |-> 0,
      beta |-> 0, maximizing_player |-> FALSE, max_time_ms |-> 0,
      paired |-> FALSE, n |-> 0 ]

\* create_empty_state(Size) of the tests
create_empty_state == new(new_game, 0)

Top == frames[Len(frames)]

Pop == SubSeq(frames, 1, Len(frames) - 1)

SetTop(f) == [frames EXCEPT ![Len(frames)] = f]

\* the innermost call returns r to its caller
Return(r) ==
    /\ frames' = Pop
    /\ ret' = r
    /\ phase' = IF Len(frames) = 1 THEN "done" ELSE phase

\* the innermost call panics: the whole call is abandoned
Panic(fn) ==
    /\ frames' = << >>
    /\ ret' = [NoRet EXCEPT !.fn = fn]
    /\ phase' = "panic"

(***************************************************************************)
(* minimax (lines 285-335).                                                *)
(***************************************************************************)
MinimaxFrame(depth, alpha, beta, maximizing_player) ==
    [ fn |-> "minimax", pc |-> "enter", depth |-> depth, alpha |-> alpha,
      beta |-> beta, maximizing_player |-> maximizing_player,
      moves |-> << >>, i |-> 0, best_score |-> 0 ]

\* the cut-off with a slip: the comparison is turned round
CutoffTurned(alpha, beta) == alpha <= beta

\* `if beta <= alpha { break; }`
Cutoff(alpha, beta) == beta <= alpha

\* MinimaxLeaf with a slip: the evaluation is negated for the minimizing side
MinimaxLeafSigned ==
    /\ phase = "run" /\ Top.fn = "minimax" /\ Top.pc = "enter"
    /\ Top.depth = 0
    /\ LET e == evaluate_state(state)
       IN  /\ state' = e.s
           /\ Return([NoRet EXCEPT !.fn = "minimax",
                                   !.score = IF Top.maximizing_player
                                             THEN e.score ELSE -e.score])
    /\ UNCHANGED << game, call, pre >>

\* depth == 0: the static evaluation
MinimaxLeaf ==
    /\ phase = "run" /\ Top.fn = "minimax" /\ Top.pc = "enter"
    /\ Top.depth = 0
    /\ LET e == evaluate_state(state)
       IN  /\ state' = e.s
           /\ Return([NoRet EXCEPT !.fn = "minimax", !.score = e.score])
    /\ UNCHANGED << game, call, pre >>

\* depth > 0: collect the moves; with no move to scan the loop is skipped
\* and the initial best_score / worst_score is returned
MinimaxEnter ==
    /\ phase = "run" /\ Top.fn = "minimax" /\ Top.pc = "enter"
    /\ Top.depth # 0
    /\ LET moves == available_cells(state)
           best  == IF Top.maximizing_player THEN -INFINITY ELSE INFINITY
       IN  IF moves = << >>
           THEN Return([NoRet EXCEPT !.fn = "minimax", !.score = best])
           ELSE /\ frames' = SetTop([Top EXCEPT !.pc = "loop", !.moves = moves,
                                                !.i = 1, !.best_score = best])
                /\ UNCHANGED << ret, phase >>
    /\ UNCHANGED << game, state, call, pre >>

\* make_move and the recursive call
MinimaxMake ==
    /\ phase = "run" /\ Top.fn = "minimax" /\ Top.pc = "loop"
    /\ state' = make_move(state, Top.moves[Top.i],
                          IF Top.maximizing_player THEN state.bot_id
                                                   ELSE state.human_id)
    /\ frames' = Append(SetTop([Top EXCEPT !.pc = "back"]),
                        MinimaxFrame(Top.depth - 1, Top.alpha, Top.beta,
                                     ~Top.maximizing_player))
    /\ UNCHANGED << game, ret, phase, call, pre >>

\* MinimaxUndo with a slip: the cut-off is tested before undo_move, and the
\* break leaves the stone on the board
MinimaxUndoAfterBreak ==
    /\ phase = "run" /\ Top.fn = "minimax" /\ Top.pc = "back"
    /\ LET score == ret.score
           best  == IF Top.maximizing_player THEN Max(Top.best_score, score)
                                             ELSE Min(Top.best_score, score)
           alpha == IF Top.maximizing_player THEN Max(Top.alpha, score)
                                             ELSE Top.alpha
           beta  == IF Top.maximizing_player THEN Top.beta
                                             ELSE Min(Top.beta, score)
       IN  /\ state' = IF Cutoff(alpha, beta) THEN state
                       ELSE undo_move(state, Top.moves[Top.i])
           /\ IF Cutoff(alpha, beta) \/ Top.i = Len(Top.moves)
              THEN Return([NoRet EXCEPT !.fn = "minimax", !.score = best])
              ELSE /\ frames' = SetTop([Top EXCEPT !.pc = "loop",
                                                   !.i = Top.i + 1,
                                                   !.best_score = best,
                                                   !.alpha = alpha,
                                                   !.beta = beta])
                   /\ UNCHANGED << ret, phase >>
    /\ UNCHANGED << game, call, pre >>

\* the recursive call is back with ret.score: undo_move, the running best,
\* the window, and either the next move or the return
MinimaxUndo ==
    /\ phase = "run" /\ Top.fn = "minimax" /\ Top.pc = "back"
    /\ state' = undo_move(state, Top.moves[Top.i])
    /\ LET score == ret.score
           best  == IF Top.maximizing_player THEN Max(Top.best_score, score)
                                             ELSE Min(Top.best_score, score)
           alpha == IF Top.maximizing_player THEN Max(Top.alpha, score)
                                             ELSE Top.alpha
           beta  == IF Top.maximizing_player THEN Top.beta
                                             ELSE Min(Top.beta, score)
       IN  IF Cutoff(alpha, beta) \/ Top.i = Len(Top.moves)
           THEN Return([NoRet EXCEPT !.fn = "minimax", !.score = best])
           ELSE /\ frames' = SetTop([Top EXCEPT !.pc = "loop", !.i = Top.i + 1,
                                                !.best_score = best,
                                                !.alpha = alpha, !.beta = beta])
                /\ UNCHANGED << ret, phase >>
    /\ UNCHANGED << game, call, pre >>

(***************************************************************************)
(* search_best_move (lines 254-283).                                       *)
(***************************************************************************)
SearchFrame(depth, pv_move) ==
    [ fn |-> "search_best_move", pc |-> "enter", depth |-> depth,
      pv_move |-> pv_move, moves |-> << >>, i |-> 0,
      best_score |-> 0, best_move |-> NoMove ]

\* the position of m in moves, 0 when it is not there
RECURSIVE Position(_, _, _)
Position(moves, m, k) ==
    IF k > Len(moves) THEN 0
    ELSE IF moves[k] = m THEN k ELSE Position(moves, m, k + 1)

\* the available cells with the PV move swapped to the front
OrderMoves(s, pv_move) ==
    LET moves == available_cells(s)
        pos   == IF pv_move = NoMove THEN 0 ELSE Position(moves, pv_move, 1)
    IN  IF pos = 0 THEN moves
        ELSE [moves EXCEPT ![1] = moves[pos], ![pos] = moves[1]]

\* `moves[0]` panics when no cell is available
SearchEnter ==
    /\ phase = "run" /\ Top.fn = "search_best_move" /\ Top.pc = "enter"
    /\ LET moves == OrderMoves(state, Top.pv_move)
       IN  IF moves = << >>
           THEN Panic("search_best_move")
           ELSE /\ frames' = SetTop([Top EXCEPT !.pc = "loop", !.moves = moves,
                                                !.i = 1,
                                                !.best_score = -INFINITY,
                                                !.best_move = moves[1]])
                /\ UNCHANGED << ret, phase >>
    /\ UNCHANGED << game, state, call, pre >>

SearchMake ==
    /\ phase = "run" /\ Top.fn = "search_best_move" /\ Top.pc = "loop"
    /\ state' = make_move(state, Top.moves[Top.i], state.bot_id)
    /\ frames' = Append(SetTop([Top EXCEPT !.pc = "back"]),
                        MinimaxFrame(Top.depth - 1, -INFINITY, INFINITY, FALSE))
    /\ UNCHANGED << game, ret, phase, call, pre >>

SearchUndo ==
    /\ phase = "run" /\ Top.fn = "search_best_move" /\ Top.pc = "back"
    /\ state' = undo_move(state, Top.moves[Top.i])
    /\ LET score  == ret.score
           better == score > Top.best_score
           best_score == IF better THEN score ELSE Top.best_score
           best_move  == IF better THEN Top.moves[Top.i] ELSE Top.best_move
       IN  IF Top.i = Len(Top.moves)
           THEN Return([NoRet EXCEPT !.fn = "search_best_move",
                                     !.move = best_move, !.score = best_score])
           ELSE /\ frames' = SetTop([Top EXCEPT !.pc = "loop", !.i = Top.i + 1,
                                                !.best_score = best_score,
                                                !.best_move = best_move])
                /\ UNCHANGED << ret, phase >>
    /\ UNCHANGED << game, call, pre >>

(***************************************************************************)
(* iterative_deepening_search (lines 215-252).  The clock is the           *)
(* environment's: `elapsed() >= time_limit` holds at once when the budget  *)
(* is 0 and may hold at any check otherwise; it holds at the latest before *)
(* depth MaxDepth + 1.                                                     *)
(***************************************************************************)
DeepeningFrame(max_time_ms) ==
    [ fn |-> "iterative_deepening_search", pc |-> "enter",
      max_time_ms |-> max_time_ms, best_move |-> NoMove, pv_move |-> NoMove,
      depth |-> 0 ]

\* `.next().expect("No available moves")`
DeepeningEnter ==
    /\ phase = "run" /\ Top.fn = "iterative_deepening_search" /\ Top.pc = "enter"
    /\ LET moves == available_cells(state)
       IN  IF moves = << >>
           THEN Panic("iterative_deepening_search")
           ELSE /\ frames' = SetTop([Top EXCEPT !.pc = "check",
                                                !.best_move = moves[1],
                                                !.depth = 1])
                /\ UNCHANGED << ret, phase >>
    /\ UNCHANGED << game, state, call, pre >>

\* either check of the clock finds the budget spent: break
DeepeningTimeout ==
    /\ phase = "run" /\ Top.fn = "iterative_deepening_search"
    /\ Top.pc \in {"check", "check2"}
    /\ Return([NoRet EXCEPT !.fn = "iterative_deepening_search",
                            !.move = Top.best_move])
    /\ UNCHANGED << game, state, call, pre >>

\* the check before a depth passes: search_best_move(state, depth, pv_move)
DeepeningSearch ==
    /\ phase = "run" /\ Top.fn = "iterative_deepening_search" /\ Top.pc = "check"
    /\ Top.max_time_ms > 0
    /\ Top.depth <= MaxDepth
    /\ frames' = Append(SetTop([Top EXCEPT !.pc = "back"]),
                        SearchFrame(Top.depth, Top.pv_move))
    /\ UNCHANGED << game, state, ret, phase, call, pre >>

\* search_best_move is back: keep its move; a score within WinMargin of
\* WIN_SCORE ends the deepening
DeepeningBack ==
    /\ phase = "run" /\ Top.fn = "iterative_deepening_search" /\ Top.pc = "back"
    /\ IF ret.score >= WIN_SCORE - WinMargin
       THEN Return([NoRet EXCEPT !.fn = "iterative_deepening_search",
                                 !.move = ret.move])
       ELSE /\ frames' = SetTop([Top EXCEPT !.pc = "check2",
                                            !.best_move = ret.move,
                                            !.pv_move = ret.move])
            /\ UNCHANGED << ret, phase >>
    /\ UNCHANGED << game, state, call, pre >>

\* the check after a depth passes: the next depth, up to DepthLimit
DeepeningNext ==
    /\ phase = "run" /\ Top.fn = "iterative_deepening_search" /\ Top.pc = "check2"
    /\ Top.max_time_ms > 0
    /\ IF Top.depth >= DepthLimit
       THEN Return([NoRet EXCEPT !.fn = "iterative_deepening_search",
                                 !.move = Top.best_move])
       ELSE /\ frames' = SetTop([Top EXCEPT !.pc = "check", !.depth = Top.depth + 1])
            /\ UNCHANGED << ret, phase >>
    /\ UNCHANGED << game, state, call, pre >>

(***************************************************************************)
(* greedy_search (lines 194-213).                                          *)
(***************************************************************************)
GreedyFrame ==
    [ fn |-> "greedy_search", pc |-> "enter", moves |-> << >>, i |-> 0 ]

SomeMove(fn, idx) ==
    [NoRet EXCEPT !.fn = fn, !.some = TRUE, !.move = idx,
                  !.coords = from_index(idx)]

GreedyEnter ==
    /\ phase = "run" /\ Top.fn = "greedy_search" /\ Top.pc = "enter"
    /\ LET moves == available_cells(state)
       IN  IF moves = << >>
           THEN Return([NoRet EXCEPT !.fn = "greedy_search"])
           ELSE /\ frames' = SetTop([Top EXCEPT !.pc = "bot", !.moves = moves,
                                                !.i = 1])
                /\ UNCHANGED << ret, phase >>
    /\ UNCHANGED << game, state, call, pre >>

\* GreedyBot with a slip: the win of the opponent is tested
GreedyBotTestsHuman ==
    /\ phase = "run" /\ Top.fn = "greedy_search" /\ Top.pc = "bot"
    /\ LET w == check_win(make_move(state, Top.moves[Top.i], state.bot_id),
                          state.human_id)
       IN  /\ state' = w.s
           /\ IF w.win
              THEN Return(SomeMove("greedy_search", Top.moves[Top.i]))
              ELSE /\ frames' = SetTop([Top EXCEPT !.pc = "bot_undo"])
                   /\ UNCHANGED << ret, phase >>
    /\ UNCHANGED << game, call, pre >>

\* make_move(move_idx, bot_id); check_win(bot_id): a win returns at once
GreedyBot ==
    /\ phase = "run" /\ Top.fn = "greedy_search" /\ Top.pc = "bot"
    /\ LET w == check_win(make_move(state, Top.moves[Top.i], state.bot_id),
                          state.bot_id)
       IN  /\ state' = w.s
           /\ IF w.win
              THEN Return(SomeMove("greedy_search", Top.moves[Top.i]))
              ELSE /\ frames' = SetTop([Top EXCEPT !.pc = "bot_undo"])
                   /\ UNCHANGED << ret, phase >>
    /\ UNCHANGED << game, call, pre >>

GreedyBotUndo ==
    /\ phase = "run" /\ Top.fn = "greedy_search" /\ Top.pc = "bot_undo"
    /\ state' = undo_move(state, Top.moves[Top.i])
    /\ frames' = SetTop([Top EXCEPT !.pc = "human"])
    /\ UNCHANGED << game, ret, phase, call, pre >>

\* GreedyHuman with a slip: the win of the bot is tested
GreedyHumanTestsBot ==
    /\ phase = "run" /\ Top.fn = "greedy_search" /\ Top.pc = "human"
    /\ LET w == check_win(make_move(state, Top.moves[Top.i], state.human_id),
                          state.bot_id)
       IN  /\ state' = w.s
           /\ IF w.win
              THEN Return(SomeMove("greedy_search", Top.moves[Top.i]))
              ELSE /\ frames' = SetTop([Top EXCEPT !.pc = "human_undo"])
                   /\ UNCHANGED << ret, phase >>
    /\ UNCHANGED << game, call, pre >>

\* make_move(move_idx, human_id); check_win(human_id): a threat returns
GreedyHuman ==
    /\ phase = "run" /\ Top.fn = "greedy_search" /\ Top.pc = "human"
    /\ LET w == check_win(make_move(state, Top.moves[Top.i], state.human_id),
                          state.human_id)
       IN  /\ state' = w.s
           /\ IF w.win
              THEN Return(SomeMove("greedy_search", Top.moves[Top.i]))
              ELSE /\ frames' = SetTop([Top EXCEPT !.pc = "human_undo"])
                   /\ UNCHANGED << ret, phase >>
    /\ UNCHANGED << game, call, pre >>

\* undo_move, then the next cell, or None after the last
GreedyHumanUndo ==
    /\ phase = "run" /\ Top.fn = "greedy_search" /\ Top.pc = "human_undo"
    /\ state' = undo_move(state, Top.moves[Top.i])
    /\ IF Top.i = Len(Top.moves)
       THEN Return([NoRet EXCEPT !.fn = "greedy_search"])
       ELSE /\ frames' = SetTop([Top EXCEPT !.pc = "bot", !.i = Top.i + 1])
            /\ UNCHANGED << ret, phase >>
    /\ UNCHANGED << game, call, pre >>

(***************************************************************************)
(* choose_move (lines 178-192).                                            *)
(***************************************************************************)
ChooseFrame(max_time_ms) ==
    [ fn |-> "choose_move", pc |-> "greedy", max_time_ms |-> max_time_ms ]

\* greedy_search found a tactical move: return it; else deepen
ChooseAfterGreedy ==
    /\ phase = "run" /\ Top.fn = "choose_move" /\ Top.pc = "greedy"
    /\ IF ret.some
       THEN Return([ret EXCEPT !.fn = "choose_move"])
       ELSE /\ frames' = Append(SetTop([Top EXCEPT !.pc = "deepening"]),
                                DeepeningFrame(Top.max_time_ms))
            /\ UNCHANGED << ret, phase >>
    /\ UNCHANGED << game, state, call, pre >>

\* Some(Coordinates::from_index(best_move, board_size))
ChooseAfterDeepening ==
    /\ phase = "run" /\ Top.fn = "choose_move" /\ Top.pc = "deepening"
    /\ Return(SomeMove("choose_move", ret.move))
    /\ UNCHANGED << game, state, call, pre >>

(***************************************************************************)
(* The bot in a game: the game is played on from the empty board, and      *)
(* choose_move is called on it at any point.                               *)
(***************************************************************************)
\* max_time_ms: no budget at all, and the 50 ms of the tests
Budgets == {0, 50}

Init ==
    /\ game = new_game
    /\ state = create_empty_state
    /\ frames = << >>
    /\ ret = NoRet
    /\ phase = "game"
    /\ call = NoCall
    /\ pre = create_empty_state

\* the player to move puts a stone on an available cell
GamePlay(idx) ==
    /\ phase = "game"
    /\ game.next # NoPlayer
    /\ idx \in game.available
    /\ game' = game_add_move(game, idx)
    /\ UNCHANGED << state, frames, ret, phase, call, pre >>

\* CallChooseMove with a slip: no early exit, player 0 stands in for the
\* missing next player
CallChooseMoveNoExit(max_time_ms) ==
    /\ phase = "game"
    /\ call' = [NoCall EXCEPT !.fn = "choose_move", !.max_time_ms = max_time_ms]
    /\ LET bot_player == IF game.next = NoPlayer THEN 0 ELSE game.next
       IN  /\ state' = new(game, bot_player)
           /\ pre' = new(game, bot_player)
    /\ frames' = << ChooseFrame(max_time_ms), GreedyFrame >>
    /\ phase' = "run"
    /\ ret' = NoRet
    /\ UNCHANGED game

\* choose_move: `game.next_player()?`, MinimaxState::new, greedy_search
CallChooseMove(max_time_ms) ==
    /\ phase = "game"
    /\ call' = [NoCall EXCEPT !.fn = "choose_move", !.max_time_ms = max_time_ms]
    /\ IF game.next = NoPlayer
       THEN /\ ret' = [NoRet EXCEPT !.fn = "choose_move"]
            /\ phase' = "done"
            /\ UNCHANGED << state, frames, pre >>
       ELSE /\ state' = new(game, game.next)
            /\ pre' = new(game, game.next)
            /\ frames' = << ChooseFrame(max_time_ms), GreedyFrame >>
            /\ phase' = "run"
            /\ ret' = NoRet
    /\ UNCHANGED game

MinimaxStep == MinimaxLeaf \/ MinimaxEnter \/ MinimaxMake \/ MinimaxUndo

SearchStep == SearchEnter \/ SearchMake \/ SearchUndo

DeepeningStep ==
    \/ DeepeningEnter
    \/ DeepeningTimeout
    \/ DeepeningSearch
    \/ DeepeningBack
    \/ DeepeningNext

GreedyStep ==
    GreedyEnter \/ GreedyBot \/ GreedyBotUndo \/ GreedyHuman \/ GreedyHumanUndo

ChooseStep == ChooseAfterGreedy \/ ChooseAfterDeepening

Next ==
    \/ \E idx \in Cells : GamePlay(idx)
    \/ \E max_time_ms \in Budgets : CallChooseMove(max_time_ms)
    \/ ChooseStep
    \/ GreedyStep
    \/ DeepeningStep
    \/ SearchStep
    \/ MinimaxStep

Spec == Init /\ [][Next]_vars

(***************************************************************************)
(* Direct calls of the search on a snapshot, as the tests make them: the   *)
(* snapshot is create_empty_state with stones put by make_move.            *)
(***************************************************************************)
\* the snapshot after make_move has put the stones of b on the empty board
PositionState(b) ==
    [create_empty_state EXCEPT !.board = b,
                               !.available_mask = [idx \in Cells |-> b[idx] = 0]]

\* the windows of the tests: the full one and (0, 100)
Windows == { << -INFINITY, INFINITY >>, << 0, 100 >> }

InitSearch ==
    /\ game = new_game
    /\ state \in {PositionState(b) : b \in [Cells -> 0 .. 2]}
    /\ frames = << >>
    /\ ret = NoRet
    /\ phase = "ready"
    /\ call = NoCall
    /\ pre = state

CallMinimax(depth, alpha, beta, maximizing_player) ==
    /\ phase = "ready"
    /\ call' = [NoCall EXCEPT !.fn = "minimax", !.depth = depth,
                              !.alpha = alpha, !.beta = beta,
                              !.maximizing_player = maximizing_player]
    /\ frames' = << MinimaxFrame(depth, alpha, beta, maximizing_player) >>
    /\ phase' = "run"
    /\ UNCHANGED << game, state, ret, pre >>

NextSearch ==
    \/ \E depth \in 0 .. MaxDepth, w \in Windows, maximizing_player \in BOOLEAN :
           CallMinimax(depth, w[1], w[2], maximizing_player)
    \/ MinimaxStep

SpecSearch == InitSearch /\ [][NextSearch]_vars

(***************************************************************************)
(* Direct calls of search_best_move and of minimax on a snapshot, as the   *)
(* tests make them (lines 773-802): any depth from 1 and any PV hint, a    *)
(* cell of the board or none.  call.idx is the PV hint.                    *)
(***************************************************************************)
PvHints == {NoMove} \cup Cells

CallSearchBestMove(depth, pv_move) ==
    /\ phase = "ready"
    /\ call' = [NoCall EXCEPT !.fn = "search_best_move", !.depth = depth,
                              !.idx = pv_move]
    /\ frames' = << SearchFrame(depth, pv_move) >>
    /\ phase' = "run"
    /\ UNCHANGED << game, state, ret, pre >>

NextSearchBest ==
    \/ \E depth \in 1 .. MaxDepth, pv_move \in PvHints :
           CallSearchBestMove(depth, pv_move)
    \/ \E depth \in 1 .. MaxDepth, w \in Windows, maximizing_player \in BOOLEAN :
           CallMinimax(depth, w[1], w[2], maximizing_player)
    \/ SearchStep
    \/ MinimaxStep

SpecSearchBest == InitSearch /\ [][NextSearchBest]_vars

(***************************************************************************)
(* Direct calls of the snapshot's own functions and of the evaluation, as  *)
(* the tests make them: at most MaxCalls calls, in any order, on a         *)
(* snapshot of any board.  pre is the snapshot before the last             *)
(* call; when undo_move(idx) directly follows make_move(idx, _), pre stays *)
(* the snapshot before that make_move and call.paired says so.             *)
(***************************************************************************)
InitUnit ==
    /\ game = new_game
    /\ state \in {PositionState(b) : b \in [Cells -> 0 .. 2]}
    /\ frames = << >>
    /\ ret = NoRet
    /\ phase = "unit"
    /\ call = NoCall
    /\ pre = state

CallMakeMove(idx, player) ==
    /\ phase = "unit"
    /\ call.n < MaxCalls
    /\ state.available_mask[idx]
    /\ state' = make_move(state, idx, player)
    /\ call' = [NoCall EXCEPT !.n = call.n + 1, !.fn = "make_move", !.idx = idx, !.player = player]
    /\ ret' = [NoRet EXCEPT !.fn = "make_move"]
    /\ pre' = state
    /\ UNCHANGED << game, frames, phase >>

CallUndoMove(idx) ==
    /\ phase = "unit"
    /\ call.n < MaxCalls
    /\ state.board[idx] # 0
    /\ state' = undo_move(state, idx)
    /\ LET paired == call.fn = "make_move" /\ call.idx = idx
       IN  /\ call' = [NoCall EXCEPT !.n = call.n + 1, !.fn = "undo_move", !.idx = idx,
                                     !.player = state.board[idx],
                                     !.paired = paired]
           /\ pre' = IF paired THEN pre ELSE state
    /\ ret' = [NoRet EXCEPT !.fn = "undo_move"]
    /\ UNCHANGED << game, frames, phase >>

CallCheckWin(player) ==
    /\ phase = "unit"
    /\ call.n < MaxCalls
    /\ LET w == check_win(state, player)
       IN  /\ state' = w.s
           /\ ret' = [NoRet EXCEPT !.fn = "check_win", !.win = w.win]
    /\ call' = [NoCall EXCEPT !.n = call.n + 1, !.fn = "check_win", !.player = player]
    /\ pre' = state
    /\ UNCHANGED << game, frames, phase >>

\* the tests start the traversal on a stone of the player
CallDfsCollectEdges(start, player) ==
    /\ phase = "unit"
    /\ call.n < MaxCalls
    /\ state.board[start] = player
    /\ LET d == dfs_collect_edges(state, start, player)
       IN  /\ state' = d.s
           /\ ret' = [NoRet EXCEPT !.fn = "dfs_collect_edges", !.mask = d.mask]
    /\ call' = [NoCall EXCEPT !.n = call.n + 1, !.fn = "dfs_collect_edges", !.idx = start,
                              !.player = player]
    /\ pre' = state
    /\ UNCHANGED << game, frames, phase >>

CallEvaluateState ==
    /\ phase = "unit"
    /\ call.n < MaxCalls
    /\ LET e == evaluate_state(state)
       IN  /\ state' = e.s
           /\ ret' = [NoRet EXCEPT !.fn = "evaluate_state", !.score = e.score]
    /\ call' = [NoCall EXCEPT !.n = call.n + 1, !.fn = "evaluate_state"]
    /\ pre' = state
    /\ UNCHANGED << game, frames, phase >>

CallEvaluatePositionStrength(player) ==
    /\ phase = "unit"
    /\ call.n < MaxCalls
    /\ ret' = [NoRet EXCEPT !.fn = "evaluate_position_strength",
                            !.score = evaluate_position_strength(state, player)]
    /\ call' = [NoCall EXCEPT !.n = call.n + 1, !.fn = "evaluate_position_strength",
                              !.player = player]
    /\ pre' = state
    /\ UNCHANGED << game, state, frames, phase >>

NextUnit ==
    \/ \E idx \in Cells, player \in 1 .. 2 : CallMakeMove(idx, player)
    \/ \E idx \in Cells : CallUndoMove(idx)
    \/ \E player \in 1 .. 2 : CallCheckWin(player)
    \/ \E start \in Cells, player \in 1 .. 2 : CallDfsCollectEdges(start, player)
    \/ CallEvaluateState
    \/ \E player \in 1 .. 2 : CallEvaluatePositionStrength(player)

SpecUnit == InitUnit /\ [][NextUnit]_vars

(***************************************************************************)
(* Direct calls of make_move and undo_move on any cell, available or not:  *)
(* neither function tests its cell (lines 99-107), so a call outside the   *)
(* contract runs the same two assignments.  pre is the snapshot before     *)
(* the last call.                                                          *)
(***************************************************************************)
CallMakeMoveAny(idx, player) ==
    /\ phase = "unit"
    /\ call.n < MaxCalls
    /\ state' = make_move(state, idx, player)
    /\ call' = [NoCall EXCEPT !.n = call.n + 1, !.fn = "make_move",
                              !.idx = idx, !.player = player]
    /\ ret' = [NoRet EXCEPT !.fn = "make_move"]
    /\ pre' = state
    /\ UNCHANGED << game, frames, phase >>

CallUndoMoveAny(idx) ==
    /\ phase = "unit"
    /\ call.n < MaxCalls
    /\ state' = undo_move(state, idx)
    /\ call' = [NoCall EXCEPT !.n = call.n + 1, !.fn = "undo_move", !.idx = idx]
    /\ ret' = [NoRet EXCEPT !.fn = "undo_move"]
    /\ pre' = state
    /\ UNCHANGED << game, frames, phase >>

NextContract ==
    \/ \E idx \in Cells, player \in 1 .. 2 : CallMakeMoveAny(idx, player)
    \/ \E idx \in Cells : CallUndoMoveAny(idx)

SpecContract == InitUnit /\ [][NextContract]_vars

(***************************************************************************)
(* Properties.                                                             *)
(***************************************************************************)
Consistent(s) == \A c \in Cells : s.available_mask[c] = (s.board[c] = 0)

\* the empty cells of board where a stone of p joins the three sides
WinCells(board, p) ==
    {c \in Cells : board[c] = 0 /\ HasWon([board EXCEPT ![c] = p], p)}

\* choose_move has returned on a game with a player to move
ChooseMoveDone ==
    phase = "done" /\ call.fn = "choose_move" /\ game.next # NoPlayer

\* greedy_search has just returned to choose_move
GreedyReturned ==
    /\ phase = "run" /\ call.fn = "choose_move"
    /\ Top.fn = "choose_move" /\ Top.pc = "greedy"
    /\ ret.fn = "greedy_search"

\* C1: on a game with a player to move and an available cell, whatever the
\* time budget (0 included), choose_move does not panic and returns
\* Some(coordinates) of a valid cell that is available (and empty) in the game.
C1_ChooseMoveReturnsAvailableCell ==
    (call.fn = "choose_move" /\ game.next # NoPlayer /\ game.available # {})
    => /\ phase # "panic"
       /\ phase = "done" =>
             /\ ret.some
             /\ is_valid(ret.coords)
             /\ to_index(ret.coords) \in game.available
             /\ game.board[to_index(ret.coords)] = 0

\* the fresh board with no budget: the move is the fallback of the deepening
C1_Witness ==
    /\ ChooseMoveDone
    /\ call.max_time_ms = 0
    /\ game = new_game
    /\ ret.some /\ to_index(ret.coords) \in game.available

\* C2: whenever some available cell wins at once for the bot,
\* greedy_search returns a cell where the bot wins at once, whichever cells
\* win at once for the opponent, and iterative deepening is not started.
C2_WinTakesPrecedence ==
    (call.fn = "choose_move" /\ phase \in {"run", "done"}
        /\ WinCells(pre.board, pre.bot_id) # {})
    => /\ \A k \in 1 .. Len(frames) : frames[k].fn # "iterative_deepening_search"
       /\ (GreedyReturned \/ phase = "done") =>
             ret.some /\ ret.move \in WinCells(pre.board, pre.bot_id)

\* both players have a cell that wins at once, and the bot's is returned
C2_Witness ==
    /\ GreedyReturned
    /\ WinCells(pre.board, pre.bot_id) # {}
    /\ WinCells(pre.board, pre.human_id) # {}
    /\ ret.some /\ ret.move \in WinCells(pre.board, pre.bot_id)

\* C3: with no cell winning at once for the bot and some cell winning at once
\* for the opponent, greedy_search returns a cell where the opponent would
\* win; it returns None only when no cell wins at once for either player.
C3_BlockWhenNoWin ==
    GreedyReturned =>
       /\ (WinCells(pre.board, pre.bot_id) = {}
              /\ WinCells(pre.board, pre.human_id) # {})
          => ret.some /\ ret.move \in WinCells(pre.board, pre.human_id)
       /\ ~ret.some
          => WinCells(pre.board, pre.bot_id) \cup WinCells(pre.board, pre.human_id) = {}

C3_Witness ==
    /\ GreedyReturned
    /\ WinCells(pre.board, pre.bot_id) = {}
    /\ WinCells(pre.board, pre.human_id) # {}
    /\ ret.some /\ ret.move \in WinCells(pre.board, pre.human_id)

C3_WitnessNone ==
    /\ GreedyReturned
    /\ ~ret.some
    /\ \E c \in Cells : pre.board[c] # 0

Stones(board, p) == {c \in Cells : board[c] = p}

\* C4: check_win(p) is true exactly when some connected component of p's
\* cells has edge flags whose OR is 0b111, whatever earlier calls left in
\* visited and stack; so never on a board without stones of p, nor when the
\* stones of p are pairwise non-adjacent (one stone on one edge, or three
\* stones on three edges that do not touch each other).
C4_CheckWinIsConnectivity ==
    call.fn = "check_win" =>
       /\ ret.win = HasWon(state.board, call.player)
       /\ (\A c, d \in Stones(state.board, call.player) :
              c # d => d \notin NeighborSet(c))
          => ~ret.win

\* a win found although the previous call left a non-empty stack and
\* visited marks on stones of the player
C4_Witness ==
    /\ call.fn = "check_win"
    /\ ret.win
    /\ pre.stack # << >>
    /\ \E c \in Stones(state.board, call.player) : pre.visited[c]

SetMax(S) == CHOOSE v \in S : \A w \in S : w <= v

SetMin(S) == CHOOSE v \in S : \A w \in S : v <= w

\* minimax without the window: every move of every node is searched
RECURSIVE PlainMinimax(_, _, _)
PlainMinimax(s, depth, maximizing_player) ==
    IF depth = 0 THEN evaluate_state(s).score
    ELSE LET moves  == available_cells(s)
             player == IF maximizing_player THEN s.bot_id ELSE s.human_id
             scores == {PlainMinimax(make_move(s, moves[k], player), depth - 1,
                                     ~maximizing_player) : k \in 1 .. Len(moves)}
         IN  IF maximizing_player THEN SetMax(scores \cup {-INFINITY})
                                  ELSE SetMin(scores \cup {INFINITY})

FullWindowDone ==
    /\ phase = "done" /\ call.fn = "minimax"
    /\ call.alpha = -INFINITY /\ call.beta = INFINITY

\* C5: called with the full window, minimax returns the score of the
\* exhaustive minimax at the same depth on the same position.
C5_AlphaBetaEqualsPlainMinimax ==
    FullWindowDone =>
       ret.score = PlainMinimax(pre, call.depth, call.maximizing_player)

\* a search of depth 3 or more on a board with that many empty cells,
\* whose score is neither a win, a loss nor a sentinel
C5_Witness ==
    /\ FullWindowDone
    /\ call.depth >= 3
    /\ Len(available_cells(pre)) >= call.depth
    /\ ret.score > LOSE_SCORE /\ ret.score < WIN_SCORE
    /\ ret.score # evaluate_state(pre).score

\* C6: make_move(c, p) on an available cell changes owner[c] to p and
\* available[c] to false and nothing else of the two; undo_move(c) right
\* after it leaves owner and available as they were before make_move.
C6_MakeUndoInverse ==
    /\ call.fn = "make_move" =>
          /\ state.board = [pre.board EXCEPT ![call.idx] = call.player]
          /\ state.available_mask =
                 [pre.available_mask EXCEPT ![call.idx] = FALSE]
    /\ (call.fn = "undo_move" /\ call.paired) =>
          /\ state.board = pre.board
          /\ state.available_mask = pre.available_mask

C6_Witness ==
    /\ call.fn = "undo_move" /\ call.paired
    /\ pre.available_mask[call.idx]
    /\ \E c \in Cells : pre.board[c] # 0

\* C7: in every state of a choose_move call, from the construction of the
\* snapshot to the return, a cell is available exactly when it has no owner.
C7_AvailableIffUnowned ==
    (call.fn = "choose_move" /\ game.next # NoPlayer) => Consistent(state)

\* two stones deep in the search: between a make_move and its undo_move
C7_Witness ==
    /\ call.fn = "choose_move" /\ phase = "run"
    /\ Top.fn = "minimax" /\ Top.pc = "back"
    /\ Cardinality({c \in Cells : state.board[c] # pre.board[c]}) >= 2

\* C8 (as the specification states it): whatever the position, depth, flag
\* and window, minimax returns a score in [LOSE_SCORE, WIN_SCORE], never -INFINITY or INFINITY.
C8_ScoreInRange ==
    ret.fn = "minimax" => (ret.score >= LOSE_SCORE /\ ret.score <= WIN_SCORE)

NonWon(board) == ~HasWon(board, 1) /\ ~HasWon(board, 2)

\* the strength without its centre term: 5 * edges + 25 * connections
\* + 40 * (stones with two or more same-owner neighbours)
SteadyTerms(s, player) ==
    LET t == StrengthTerms(s, player)
    IN  t.bonus + t.edge_score + t.connections_score

\* C9 (as the specification states it): on a non-won position, one more
\* stone of p on an empty cell does not decrease evaluate_position_strength(state, p).
C9_StrengthMonotone ==
    (call.fn = "evaluate_position_strength" /\ NonWon(state.board)) =>
       \A c \in Cells : state.available_mask[c] =>
          evaluate_position_strength(make_move(state, c, call.player), call.player)
             >= ret.score

\* C9 (amended): on a non-won position, one more stone of p on an empty cell
\* does not decrease the strength of p without its centre term.
C9_SteadyTermsMonotone ==
    (call.fn = "evaluate_position_strength" /\ NonWon(state.board)) =>
       \A c \in Cells : state.available_mask[c] =>
          SteadyTerms(make_move(state, c, call.player), call.player)
             >= ret.score - StrengthTerms(state, call.player).center_score

\* a stone that raises the steady terms while the whole strength falls
C9_Witness ==
    /\ call.fn = "evaluate_position_strength" /\ NonWon(state.board)
    /\ \E c \in Cells :
          /\ state.available_mask[c]
          /\ SteadyTerms(make_move(state, c, call.player), call.player)
                > ret.score - StrengthTerms(state, call.player).center_score
          /\ evaluate_position_strength(make_move(state, c, call.player),
                                        call.player) < ret.score

\* the position with the owner of every stone swapped
SwapOwners(s) ==
    [s EXCEPT !.board = [c \in Cells |-> IF s.board[c] = 0 THEN 0
                                         ELSE 3 - s.board[c]]]

\* C10: swapping the owner of every stone negates evaluate_state; on a
\* board without stones it is 0.
C10_EvaluateStateAntisymmetric ==
    call.fn = "evaluate_state" =>
       /\ ret.score = -(evaluate_state(SwapOwners(pre)).score)
       /\ (\A c \in Cells : pre.board[c] = 0) => ret.score = 0

\* a position that is not won, with stones of both and a non-zero score
C10_Witness ==
    /\ call.fn = "evaluate_state"
    /\ Stones(pre.board, 1) # {} /\ Stones(pre.board, 2) # {}
    /\ ret.score # 0 /\ ret.score < WIN_SCORE /\ ret.score > LOSE_SCORE

\* a won position: WIN_SCORE one way, LOSE_SCORE the other
C10_WitnessWon ==
    /\ call.fn = "evaluate_state"
    /\ ret.score = WIN_SCORE
    /\ evaluate_state(SwapOwners(pre)).score = LOSE_SCORE

\* C11: minimax(state, 0, alpha, beta, flag) returns evaluate_state(state)
\* whatever the window and the flag, and leaves board and available_mask as
\* they were at the call.
C11_DepthZeroIsEvaluation ==
    (call.fn = "minimax" /\ call.depth = 0 /\ phase = "done") =>
       /\ ret.score = evaluate_state(pre).score
       /\ state.board = pre.board
       /\ state.available_mask = pre.available_mask

\* a depth-0 call for the minimizing side with the window (0, 100) on a
\* position whose evaluation is outside the window
C11_Witness ==
    /\ call.fn = "minimax" /\ call.depth = 0 /\ phase = "done"
    /\ ~call.maximizing_player /\ call.alpha = 0
    /\ ret.score < 0 /\ ret.score > LOSE_SCORE
    /\ Stones(pre.board, 1) # {} /\ Stones(pre.board, 2) # {}

\* C12: on a game without a next player choose_move returns None at once:
\* no snapshot is built, no scan or search is started and nothing panics;
\* on a game with a next player it never returns None.
C12_GameOverIsNone ==
    call.fn = "choose_move" =>
       /\ game.next = NoPlayer =>
             /\ phase = "done" /\ ~ret.some /\ ret.fn = "choose_move"
             /\ frames = << >>
             /\ state = create_empty_state /\ pre = create_empty_state
       /\ (game.next # NoPlayer /\ phase = "done") => ret.some

\* choose_move was called on a game that a player has won
C12_Witness ==
    /\ call.fn = "choose_move" /\ phase = "done"
    /\ game.next = NoPlayer
    /\ HasWon(game.board, 1) \/ HasWon(game.board, 2)

\* C13 (as the specification states it): whenever greedy_search returns, be
\* it a winning cell, a blocking cell or None, board and available_mask are
\* what they were when it was called.
C13_GreedyRestoresSnapshot ==
    GreedyReturned =>
       /\ state.board = pre.board
       /\ state.available_mask = pre.available_mask

\* the player bot joins the three sides from board whatever the other
\* player answers, when turn (a player id) is to move
RECURSIVE BotForces(_, _, _)
BotForces(board, bot, turn) ==
    LET empty == {c \in Cells : board[c] = 0}
    IN  IF HasWon(board, bot) THEN TRUE
        ELSE IF HasWon(board, 3 - bot) \/ empty = {} THEN FALSE
        ELSE IF turn = bot
             THEN \E c \in empty :
                     BotForces([board EXCEPT ![c] = bot], bot, 3 - bot)
             ELSE \A c \in empty :
                     BotForces([board EXCEPT ![c] = turn], bot, bot)

\* iterative deepening is about to stop on `score >= WIN_SCORE - 100`
EarlyStop ==
    /\ phase = "run"
    /\ Top.fn = "iterative_deepening_search" /\ Top.pc = "back"
    /\ ret.fn = "search_best_move"
    /\ ret.score >= WIN_SCORE - WinMargin

\* C14 (as the specification states it): when iterative deepening stops on
\* a score within 100 of WIN_SCORE, the bot wins after the returned move
\* against every sequence of replies.
C14_EarlyStopMeansForcedWin ==
    EarlyStop =>
       BotForces([pre.board EXCEPT ![ret.move] = pre.bot_id],
                 pre.bot_id, pre.human_id)

\* C15 (as the specification states it): make_move on a cell that is not
\* available, and undo_move on a cell without owner, abort the call and
\* leave board and available_mask as they were.
C15_ContractViolationFatal ==
    /\ (call.fn = "make_move" /\ ~pre.available_mask[call.idx]) =>
          phase = "panic" /\ state = pre
    /\ (call.fn = "undo_move" /\ pre.board[call.idx] = 0) =>
          phase = "panic" /\ state = pre

\* the calls on the stack that have made a move and wait for its score
Pending ==
    {k \in 1 .. Len(frames) :
        /\ frames[k].fn \in {"search_best_move", "minimax"}
        /\ frames[k].pc = "back"}

PendingCell(k) == frames[k].moves[frames[k].i]

PendingOwner(k) ==
    IF frames[k].fn = "search_best_move" \/ frames[k].maximizing_player
    THEN pre.bot_id ELSE pre.human_id

\* C16: during a call of search_best_move or minimax the board is the board
\* of the call plus one stone for each call that waits between its
\* make_move and its undo_move, each on a different cell that was empty; the
\* available bits follow the board; when the call returns, also after a
\* cut-off, board and available_mask are those of the call, and the move
\* search_best_move returns is available.
C16_SearchRestoresSnapshot ==
    call.fn \in {"search_best_move", "minimax"} =>
       /\ \A k \in Pending : pre.board[PendingCell(k)] = 0
       /\ \A k, l \in Pending : PendingCell(k) = PendingCell(l) => k = l
       /\ \A c \in Cells :
             state.board[c] =
                IF \E k \in Pending : PendingCell(k) = c
                THEN PendingOwner(CHOOSE k \in Pending : PendingCell(k) = c)
                ELSE pre.board[c]
       /\ Consistent(state)
       /\ phase = "done" =>
             /\ state.board = pre.board
             /\ state.available_mask = pre.available_mask
             /\ call.fn = "search_best_move" =>
                   ret.move \in Cells /\ state.available_mask[ret.move]

\* search_best_move has returned from a search of depth 3 or more with a PV
\* hint, on a board with at least three empty cells, with another move than
\* the hint
C16_Witness ==
    /\ call.fn = "search_best_move" /\ phase = "done"
    /\ call.depth >= 3 /\ call.idx # NoMove
    /\ pre.available_mask[call.idx]
    /\ Len(available_cells(pre)) >= 3
    /\ ret.move # call.idx

==========================================================================
